---- MODULE Spec2Model ----
(***************************************************************************)
(* State-machine model of the session pool of src/app.py: the client pool  *)
(* (clients, guarded by clients_lock), the account registry (accounts),    *)
(* the session store (the files of SESSIONS_DIR), the archive area (the    *)
(* files of BACKUP_DIR) and the handlers get_client, add_account,          *)
(* create_backup, restore_backup and delete_account.                       *)
(*                                                                         *)
(* Each handler is cut into steps at the points where it reads or writes   *)
(* state another thread can touch: a step is one statement (or a run of    *)
(* statements touching only thread-local data) of the handler.             *)
(***************************************************************************)
EXTENDS Integers, Sequences, FiniteSets, TLC

\* ------------------------------------------------------------------ bounds
MaxOps == 3                      \* requests issued in one behaviour
MaxEmail == 3                    \* length of the e-mail addresses tried

Threads == {1, 2}                \* concurrent request/background threads
Names == {"alice", "bob"}        \* account names
Blobs == {"a1", "b1", "s2", "s3"} \* contents a session file can have
Proxies == {"px"}                \* proxy strings
ArchNames == {"backup_0.zip"}    \* file names in BACKUP_DIR

NoBlob == "nofile"               \* sessions/<n>.json does not exist
NoProxy == "noproxy"             \* proxy is None
NoMeta == "nometa"               \* n not in accounts
NoName == "noname"               \* no argument
NoHandle == [id |-> 0, blob |-> NoBlob, proxy |-> NoProxy]   \* n not in clients
NoArchive == [exists |-> FALSE, ok |-> FALSE, members |-> <<>>]

\* ------------------------------------------------------------------ state
VARIABLES
    clients,        \* clients: account name -> cached Client (or NoHandle)
    clients_lock,   \* 0 when free, else the thread holding it
    accounts,       \* accounts: account name -> proxy of its metadata (or NoMeta)
    store,          \* SESSIONS_DIR: account name -> blob of <name>.json (or NoBlob)
    backups,        \* BACKUP_DIR: file name -> archive
    pc,             \* position of each thread in its handler
    op,             \* the handler each thread is running or ran last
    arg,            \* account name that handler was called with
    file,           \* archive file name that backup/restore uses (for
                    \* add_account: the proxy of the request)
    ret,            \* outcome of that handler
    got,            \* Client returned by that get_client
    probe,          \* outcome of the liveness probe of that get_client
    cl,             \* the Client under construction (get_client, create_session)
    zf,             \* members of the open ZipFile (written so far / still to extract)
    todo,           \* session files listed by create_backup and not yet written
    inp,            \* archive uploaded to the running restore
    old,            \* history: the Client the running get_client found cached
    start,          \* history: store when the running backup/restore started
    foreign,        \* history: another thread changed store, accounts or
                    \* BACKUP_DIR while this handler was running
    nextId,         \* number of Client objects constructed so far
    ops,            \* number of requests issued so far
    req,            \* an AddAccount request body: its email and its name
    name            \* the account name add_account derives for req

vars == <<clients, clients_lock, accounts, store, backups, pc, op, arg, file,
          ret, got, probe, cl, zf, todo, inp, old, start, foreign, nextId, ops,
          req, name>>

\* ------------------------------------------------------------ pure helpers
\* A member of a zip archive: its name, its content, and whether its local
\* header is intact (zipfile raises BadZipFile on a damaged one).
Member(n, b, g) == [name |-> n, blob |-> b, good |-> g]

\* Archive files: ok is whether the central directory can be read.
Zip(ms) == [exists |-> TRUE, ok |-> TRUE, members |-> ms]
NotZip == [exists |-> TRUE, ok |-> FALSE, members |-> <<>>]

\* ExtractMember that keeps a session file that exists already.
ExtractMember_KeepsExisting(s, m) ==
    [s EXCEPT ![m.name] = IF s[m.name] = NoBlob THEN m.blob ELSE s[m.name]]

\* ZipFile._extract_member for one member: writes SESSIONS_DIR/<name>.
ExtractMember(s, m) == [s EXCEPT ![m.name] = m.blob]

\* ZipFile.extractall over intact members, in archive order.
RECURSIVE ExtractAll(_, _)
ExtractAll(ms, s) ==
    IF ms = <<>> THEN s ELSE ExtractAll(Tail(ms), ExtractMember(s, Head(ms)))

\* ListDir that misses the files of bob.
ListDir_SkipsOne(s) == {n \in Names : s[n] # NoBlob /\ n # "bob"}

\* os.listdir(SESSIONS_DIR): the names that have a session file.
ListDir(s) == {n \in Names : s[n] # NoBlob}

EmptyStore == [n \in Names |-> NoBlob]

\* The session files found at start-up: none, or one per account, each with
\* its own content.
OnDisk == [alice |-> "a1", bob |-> "b1"]
LoginBlobs == {"s2"}             \* the session a login of this run yields

\* The archives a client may upload: a file that is not a zip, and zips of
\* one or two session files, intact or with a member whose header is
\* damaged.
Uploads ==
    { NotZip,
      Zip(<<Member("alice", "s3", TRUE)>>),
      Zip(<<Member("alice", "a1", TRUE), Member("bob", "s3", TRUE)>>),
      Zip(<<Member("bob", "s3", TRUE), Member("alice", "s3", FALSE)>>) }

AllGood(ms) == \A i \in 1..Len(ms) : ms[i].good
MemberNames(ms) == {ms[i].name : i \in 1..Len(ms)}
BlobOf(ms, n) == ms[CHOOSE i \in 1..Len(ms) : ms[i].name = n].blob

\* Strings are sequences of characters.  None (the default of
\* AddAccount.name) and the name not yet derived are marked by sequences
\* that are no strings of Chars.
Chars == {"a", "_", "+", ".", "@"}
None == <<"None">>
NoDerived == <<"none">>
AliceEmail == <<"a", "l", "i", "c", "e", "@", "x", ".", "c", "o", "m">>

\* The request bodies tried: every e-mail address of at most MaxEmail
\* characters and alice@x.com, without a name, with the empty name and with
\* an explicit name.
Emails ==
    UNION {[1..k -> Chars] : k \in 0..MaxEmail} \cup {AliceEmail}
GivenNames == {None, <<>>, <<"a", ".", "+">>}
Requests == [email : Emails, name : GivenNames]
NoRequest == [email |-> <<>>, name |-> None]

\* s.split('@')[0]: the characters before the first '@', all of s when it
\* has none.
RECURSIVE SplitAt0(_)
SplitAt0(s) ==
    IF s = <<>> \/ Head(s) = "@" THEN <<>>
    ELSE <<Head(s)>> \o SplitAt0(Tail(s))

\* s.replace(c, d) for single characters c and d.
Replace(s, c, d) == [i \in 1..Len(s) |-> IF s[i] = c THEN d ELSE s[i]]

\* DeriveName that leaves '+' as it is.
DeriveName_KeepsPlus(r) ==
    IF r.name # None /\ r.name # <<>>
    THEN r.name
    ELSE Replace(SplitAt0(r.email), ".", "_")

\* name = req.name or req.email.split('@')[0].replace('+', '_')
\*                                           .replace('.', '_')
\* (app.py:73): None and the empty string are falsy.
DeriveName(r) ==
    IF r.name # None /\ r.name # <<>>
    THEN r.name
    ELSE Replace(Replace(SplitAt0(r.email), "+", "_"), ".", "_")

\* Thread t starts serving a request with handler h, going to label l.
Begin(t, h, l, r) ==
    /\ ops < MaxOps
    /\ pc[t] = "idle"
    /\ ops' = ops + 1
    /\ op' = [op EXCEPT ![t] = h]
    /\ pc' = [pc EXCEPT ![t] = l]
    /\ ret' = [ret EXCEPT ![t] = r]
    /\ probe' = [probe EXCEPT ![t] = "none"]
    /\ got' = [got EXCEPT ![t] = NoHandle]
    /\ UNCHANGED <<cl, zf, todo, old>>

\* The handler of thread t ends with outcome r: its locals are dropped.
Finish(t, r) ==
    /\ pc' = [pc EXCEPT ![t] = "idle"]
    /\ ret' = [ret EXCEPT ![t] = r]
    /\ cl' = [cl EXCEPT ![t] = NoHandle]
    /\ zf' = [zf EXCEPT ![t] = <<>>]
    /\ todo' = [todo EXCEPT ![t] = {}]
    /\ inp' = [inp EXCEPT ![t] = NoArchive]
    /\ old' = [old EXCEPT ![t] = NoHandle]
    /\ start' = [start EXCEPT ![t] = EmptyStore]

\* History bookkeeping of a step of thread t: touch is whether the step
\* changes store, accounts or BACKUP_DIR, fin whether it ends the handler.
Fgn(t, touch, fin) ==
    [u \in Threads |->
        IF u = t THEN (IF fin THEN FALSE ELSE foreign[t])
        ELSE IF touch /\ pc[u] # "idle" THEN TRUE ELSE foreign[u]]

Init ==
    /\ clients = [n \in Names |-> NoHandle]
    /\ clients_lock = 0
    /\ accounts = [n \in Names |-> NoMeta]
    /\ store \in {s \in [Names -> Blobs \cup {NoBlob}] :
                    \A n \in Names : s[n] \in {NoBlob, OnDisk[n]}}
    /\ backups = [f \in ArchNames |-> NoArchive]
    /\ pc = [t \in Threads |-> "idle"]
    /\ op = [t \in Threads |-> "none"]
    /\ arg = [t \in Threads |-> NoName]
    /\ file = [t \in Threads |-> NoName]
    /\ ret = [t \in Threads |-> "none"]
    /\ got = [t \in Threads |-> NoHandle]
    /\ probe = [t \in Threads |-> "none"]
    /\ cl = [t \in Threads |-> NoHandle]
    /\ zf = [t \in Threads |-> <<>>]
    /\ todo = [t \in Threads |-> {}]
    /\ inp = [t \in Threads |-> NoArchive]
    /\ old = [t \in Threads |-> NoHandle]
    /\ start = [t \in Threads |-> EmptyStore]
    /\ foreign = [t \in Threads |-> FALSE]
    /\ nextId = 0
    /\ ops = 0
    /\ req = NoRequest
    /\ name = NoDerived

\* ------------------------------------------------------------- get_client
\* A handler calls get_client(n) (app.py:46).
CallGetClient(t, n) ==
    /\ Begin(t, "get_client", "acq_lock", "running")
    /\ arg' = [arg EXCEPT ![t] = n]
    /\ file' = [file EXCEPT ![t] = NoName]
    /\ UNCHANGED <<clients, clients_lock, accounts, store, backups, inp,
                   start, foreign, nextId, req, name>>

\* AcqLock that enters the block without waiting for the lock.
AcqLock_NoWait(t) ==
    /\ pc[t] = "acq_lock"
    /\ clients_lock' = t
    /\ pc' = [pc EXCEPT ![t] = "acq_probe"]
    /\ UNCHANGED <<clients, accounts, store, backups, op, arg, file, ret,
                   got, probe, cl, zf, todo, inp, old, start, foreign,
                   nextId, ops, req, name>>

\* with clients_lock: (app.py:47)
AcqLock(t) ==
    /\ pc[t] = "acq_lock"
    /\ clients_lock = 0
    /\ clients_lock' = t
    /\ pc' = [pc EXCEPT ![t] = "acq_probe"]
    /\ UNCHANGED <<clients, accounts, store, backups, op, arg, file, ret,
                   got, probe, cl, zf, todo, inp, old, start, foreign,
                   nextId, ops, req, name>>

\* AcqProbe with a probe success answered by a rebuilt Client.
AcqProbe_Rebuilds(t) ==
    /\ pc[t] = "acq_probe"
    /\ IF clients[arg[t]] # NoHandle
       THEN \E alive \in BOOLEAN :
              IF alive
              THEN /\ probe' = [probe EXCEPT ![t] = "ok"]
                   /\ nextId' = nextId + 1
                   /\ clients' = [clients EXCEPT ![arg[t]].id = nextId + 1]
                   /\ got' = [got EXCEPT ![t] = clients'[arg[t]]]
                   /\ Finish(t, "ok")
                   /\ foreign' = Fgn(t, FALSE, TRUE)
                   /\ clients_lock' = 0
              ELSE /\ probe' = [probe EXCEPT ![t] = "fail"]
                   /\ old' = [old EXCEPT ![t] = clients[arg[t]]]
                   /\ clients' = [clients EXCEPT ![arg[t]] = NoHandle]
                   /\ pc' = [pc EXCEPT ![t] = "acq_exists"]
                   /\ UNCHANGED <<got, ret, cl, zf, todo, inp, start, foreign,
                                  clients_lock, nextId>>
       ELSE /\ pc' = [pc EXCEPT ![t] = "acq_exists"]
            /\ UNCHANGED <<probe, got, ret, cl, zf, todo, inp, old, start,
                           foreign, clients_lock, clients, nextId>>
    /\ UNCHANGED <<accounts, store, backups, op, arg, file, ops, req, name>>

\* AcqProbe with a probe failure passed on to the caller.
AcqProbe_Raises(t) ==
    /\ pc[t] = "acq_probe"
    /\ IF clients[arg[t]] # NoHandle
       THEN \E alive \in BOOLEAN :
              /\ probe' = [probe EXCEPT ![t] = IF alive THEN "ok" ELSE "fail"]
              /\ got' = [got EXCEPT ![t] = IF alive THEN clients[arg[t]] ELSE NoHandle]
              /\ Finish(t, IF alive THEN "ok" ELSE "error")
              /\ foreign' = Fgn(t, FALSE, TRUE)
              /\ clients_lock' = 0
              /\ UNCHANGED clients
       ELSE /\ pc' = [pc EXCEPT ![t] = "acq_exists"]
            /\ UNCHANGED <<probe, got, ret, cl, zf, todo, inp, old, start,
                           foreign, clients_lock, clients>>
    /\ UNCHANGED <<accounts, store, backups, op, arg, file, nextId, ops, req,
                   name>>

\* The cache lookup and the liveness probe (app.py:48-53).  The probe is a
\* network call: it returns or raises.
AcqProbe(t) ==
    /\ pc[t] = "acq_probe"
    /\ IF clients[arg[t]] # NoHandle
       THEN \E alive \in BOOLEAN :
              IF alive
              THEN /\ probe' = [probe EXCEPT ![t] = "ok"]
                   /\ got' = [got EXCEPT ![t] = clients[arg[t]]]
                   /\ Finish(t, "ok")
                   /\ foreign' = Fgn(t, FALSE, TRUE)
                   /\ clients_lock' = 0
                   /\ UNCHANGED clients
              ELSE /\ probe' = [probe EXCEPT ![t] = "fail"]
                   /\ old' = [old EXCEPT ![t] = clients[arg[t]]]
                   /\ clients' = [clients EXCEPT ![arg[t]] = NoHandle]
                   /\ pc' = [pc EXCEPT ![t] = "acq_exists"]
                   /\ UNCHANGED <<got, ret, cl, zf, todo, inp, start, foreign,
                                  clients_lock>>
       ELSE /\ pc' = [pc EXCEPT ![t] = "acq_exists"]
            /\ UNCHANGED <<probe, got, ret, cl, zf, todo, inp, old, start,
                           foreign, clients_lock, clients>>
    /\ UNCHANGED <<accounts, store, backups, op, arg, file, nextId, ops, req,
                   name>>

\* AcqExists that raises the 404 without releasing the lock.
AcqExists_KeepsLock(t) ==
    /\ pc[t] = "acq_exists"
    /\ IF store[arg[t]] = NoBlob
       THEN /\ Finish(t, "NotFound")
            /\ foreign' = Fgn(t, FALSE, TRUE)
            /\ UNCHANGED clients_lock
       ELSE /\ pc' = [pc EXCEPT ![t] = "acq_build"]
            /\ UNCHANGED <<ret, cl, zf, todo, inp, old, start, foreign,
                           clients_lock>>
    /\ UNCHANGED <<clients, accounts, store, backups, op, arg, file, got,
                   probe, nextId, ops, req, name>>

\* AcqExists without the existence check.
AcqExists_NoCheck(t) ==
    /\ pc[t] = "acq_exists"
    /\ pc' = [pc EXCEPT ![t] = "acq_build"]
    /\ UNCHANGED <<clients, clients_lock, accounts, store, backups, op, arg,
                   file, ret, got, probe, cl, zf, todo, inp, old, start,
                   foreign, nextId, ops, req, name>>

\* The session file must exist, else 404 (app.py:55-57).
AcqExists(t) ==
    /\ pc[t] = "acq_exists"
    /\ IF store[arg[t]] = NoBlob
       THEN /\ Finish(t, "NotFound")
            /\ foreign' = Fgn(t, FALSE, TRUE)
            /\ clients_lock' = 0
       ELSE /\ pc' = [pc EXCEPT ![t] = "acq_build"]
            /\ UNCHANGED <<ret, cl, zf, todo, inp, old, start, foreign,
                           clients_lock>>
    /\ UNCHANGED <<clients, accounts, store, backups, op, arg, file, got,
                   probe, nextId, ops, req, name>>

\* A new Client is constructed and configured with the proxy of the
\* registry, if it has one (app.py:59-64).
AcqBuild(t) ==
    /\ pc[t] = "acq_build"
    /\ nextId' = nextId + 1
    /\ cl' = [cl EXCEPT ![t] =
                [id |-> nextId + 1, blob |-> NoBlob,
                 proxy |-> IF accounts[arg[t]] \in {NoMeta, NoProxy}
                           THEN NoProxy ELSE accounts[arg[t]]]]
    /\ pc' = [pc EXCEPT ![t] = "acq_load"]
    /\ UNCHANGED <<clients, clients_lock, accounts, store, backups, op, arg,
                   file, ret, got, probe, zf, todo, inp, old, start, foreign,
                   ops, req, name>>

\* load_settings reads the session file (it raises when the file is gone);
\* then the Client is cached and returned (app.py:66-68).
AcqLoad(t) ==
    /\ pc[t] = "acq_load"
    /\ IF store[arg[t]] = NoBlob
       THEN /\ Finish(t, "error")
            /\ UNCHANGED <<clients, got>>
       ELSE /\ clients' = [clients EXCEPT ![arg[t]] =
                              [cl[t] EXCEPT !.blob = store[arg[t]]]]
            /\ got' = [got EXCEPT ![t] = [cl[t] EXCEPT !.blob = store[arg[t]]]]
            /\ Finish(t, "ok")
    /\ foreign' = Fgn(t, FALSE, TRUE)
    /\ clients_lock' = 0
    /\ UNCHANGED <<accounts, store, backups, op, arg, file, probe, nextId,
                   ops, req, name>>

\* --------------------------------------------------------- delete_account
\* A DELETE /accounts/{n} request reaches delete_account (app.py:236-238).
CallDelete(t, n) ==
    /\ Begin(t, "delete_account", "del_exists", "running")
    /\ arg' = [arg EXCEPT ![t] = n]
    /\ file' = [file EXCEPT ![t] = NoName]
    /\ UNCHANGED <<clients, clients_lock, accounts, store, backups, inp,
                   start, foreign, nextId, req, name>>

\* DelExists treating a missing session file as already deleted.
DelExists_Idempotent(t) ==
    /\ pc[t] = "del_exists"
    /\ pc' = [pc EXCEPT ![t] = IF store[arg[t]] = NoBlob THEN "del_lock" ELSE "del_remove"]
    /\ UNCHANGED <<clients, clients_lock, accounts, store, backups, op, arg,
                   file, ret, got, probe, cl, zf, todo, inp, old, start,
                   foreign, nextId, ops, req, name>>

\* The existence check: without a session file the request ends with 404
\* (app.py:239, 245).
DelExists(t) ==
    /\ pc[t] = "del_exists"
    /\ IF store[arg[t]] = NoBlob
       THEN /\ Finish(t, "NotFound")
            /\ foreign' = Fgn(t, FALSE, TRUE)
       ELSE /\ pc' = [pc EXCEPT ![t] = "del_remove"]
            /\ UNCHANGED <<ret, cl, zf, todo, inp, old, start, foreign>>
    /\ UNCHANGED <<clients, clients_lock, accounts, store, backups, op, arg,
                   file, got, probe, nextId, ops, req, name>>

\* os.remove(session_path); it raises when the file is already gone
\* (app.py:240).
DelRemove(t) ==
    /\ pc[t] = "del_remove"
    /\ IF store[arg[t]] = NoBlob
       THEN /\ Finish(t, "error")
            /\ foreign' = Fgn(t, FALSE, TRUE)
            /\ UNCHANGED store
       ELSE /\ store' = [store EXCEPT ![arg[t]] = NoBlob]
            /\ foreign' = Fgn(t, TRUE, FALSE)
            /\ pc' = [pc EXCEPT ![t] = "del_lock"]
            /\ UNCHANGED <<ret, cl, zf, todo, inp, old, start>>
    /\ UNCHANGED <<clients, clients_lock, accounts, backups, op, arg, file,
                   got, probe, nextId, ops, req, name>>

\* with clients_lock: (app.py:241)
DelLock(t) ==
    /\ pc[t] = "del_lock"
    /\ clients_lock = 0
    /\ clients_lock' = t
    /\ pc' = [pc EXCEPT ![t] = "del_pop"]
    /\ UNCHANGED <<clients, accounts, store, backups, op, arg, file, ret,
                   got, probe, cl, zf, todo, inp, old, start, foreign,
                   nextId, ops, req, name>>

\* DelPop without the eviction of the cached Client.
DelPop_NoEvict(t) ==
    /\ pc[t] = "del_pop"
    /\ accounts' = [accounts EXCEPT ![arg[t]] = NoMeta]
    /\ foreign' = Fgn(t, accounts[arg[t]] # NoMeta, TRUE)
    /\ clients_lock' = 0
    /\ Finish(t, "ok")
    /\ UNCHANGED <<clients, store, backups, op, arg, file, got, probe,
                   nextId, ops, req, name>>

\* clients.pop, accounts.pop, release of the lock, return of success
\* (app.py:242-244).
DelPop(t) ==
    /\ pc[t] = "del_pop"
    /\ clients' = [clients EXCEPT ![arg[t]] = NoHandle]
    /\ accounts' = [accounts EXCEPT ![arg[t]] = NoMeta]
    /\ foreign' = Fgn(t, accounts[arg[t]] # NoMeta, TRUE)
    /\ clients_lock' = 0
    /\ Finish(t, "ok")
    /\ UNCHANGED <<store, backups, op, arg, file, got, probe, nextId, ops,
                   req, name>>

\* ------------------------------------------------------------ add_account
\* POST /accounts/add: the background task is scheduled and the request is
\* acknowledged with the account name (app.py:72-73, 86-87).  file keeps
\* the proxy of the request for the background task.
AddAccount(t, n, p) ==
    /\ Begin(t, "add_account", "cr_login", "ack")
    /\ arg' = [arg EXCEPT ![t] = n]
    /\ file' = [file EXCEPT ![t] = p]
    /\ UNCHANGED <<clients, clients_lock, accounts, store, backups, inp,
                   start, foreign, nextId, req, name>>

\* CrLogin that records the account in the registry although the login
\* failed.
CrLogin_RecordsFailed(t) ==
    /\ pc[t] = "cr_login"
    /\ \E b \in LoginBlobs \cup {NoBlob} :
          IF b = NoBlob
          THEN /\ accounts' = [accounts EXCEPT ![arg[t]] = file[t]]
               /\ Finish(t, "ack")
               /\ foreign' = Fgn(t, TRUE, TRUE)
          ELSE /\ cl' = [cl EXCEPT ![t] =
                           [id |-> 0, blob |-> b, proxy |-> file[t]]]
               /\ pc' = [pc EXCEPT ![t] = "cr_dump"]
               /\ UNCHANGED <<accounts, ret, zf, todo, inp, old, start, foreign>>
    /\ UNCHANGED <<clients, clients_lock, store, backups, op, arg, file, got,
                   probe, nextId, ops, req, name>>

\* create_session: a Client is constructed, given the proxy and logged in;
\* a failed login is printed and swallowed (app.py:76-79, 83-84).
CrLogin(t) ==
    /\ pc[t] = "cr_login"
    /\ \E b \in LoginBlobs \cup {NoBlob} :
          IF b = NoBlob
          THEN /\ Finish(t, "ack")
               /\ foreign' = Fgn(t, FALSE, TRUE)
          ELSE /\ cl' = [cl EXCEPT ![t] =
                           [id |-> 0, blob |-> b, proxy |-> file[t]]]
               /\ pc' = [pc EXCEPT ![t] = "cr_dump"]
               /\ UNCHANGED <<ret, zf, todo, inp, old, start, foreign>>
    /\ UNCHANGED <<clients, clients_lock, accounts, store, backups, op, arg,
                   file, got, probe, nextId, ops, req, name>>

\* cl.dump_settings(session_path) (app.py:80-81).
CrDump(t) ==
    /\ pc[t] = "cr_dump"
    /\ store' = [store EXCEPT ![arg[t]] = cl[t].blob]
    /\ foreign' = Fgn(t, TRUE, FALSE)
    /\ pc' = [pc EXCEPT ![t] = "cr_meta"]
    /\ UNCHANGED <<clients, clients_lock, accounts, backups, op, arg, file,
                   ret, got, probe, cl, zf, todo, inp, old, start, nextId,
                   ops, req, name>>

\* accounts[name] = {...} (app.py:82).
CrMeta(t) ==
    /\ pc[t] = "cr_meta"
    /\ accounts' = [accounts EXCEPT ![arg[t]] = cl[t].proxy]
    /\ foreign' = Fgn(t, TRUE, TRUE)
    /\ Finish(t, "ack")
    /\ UNCHANGED <<clients, clients_lock, store, backups, op, arg, file, got,
                   probe, nextId, ops, req, name>>

\* ---------------------------------------------------------- create_backup
\* POST /backup: the archive file named by the timestamp is opened for
\* writing, which creates or truncates it (app.py:211-214).  datetime.now()
\* is the wall clock: any stamp may come back.
BkOpen(t, f) ==
    /\ Begin(t, "create_backup", "bk_list", "running")
    /\ arg' = [arg EXCEPT ![t] = NoName]
    /\ file' = [file EXCEPT ![t] = f]
    /\ start' = [start EXCEPT ![t] = store]
    /\ backups' = [backups EXCEPT ![f] = NotZip]
    /\ foreign' = Fgn(t, TRUE, FALSE)
    /\ UNCHANGED <<clients, clients_lock, accounts, store, inp, nextId, req,
                   name>>

\* os.listdir(SESSIONS_DIR) (app.py:215).
BkList(t) ==
    /\ pc[t] = "bk_list"
    /\ todo' = [todo EXCEPT ![t] = ListDir(store)]
    /\ pc' = [pc EXCEPT ![t] = "bk_write"]
    /\ UNCHANGED <<clients, clients_lock, accounts, store, backups, op, arg,
                   file, ret, got, probe, cl, zf, inp, old, start, foreign,
                   nextId, ops, req, name>>

\* zf.write of the next listed file, in the order listdir gave (any order).
\* When the file is gone zf.write raises; leaving the with block then closes
\* the archive with the members written so far (app.py:214-216).
BkWrite(t) ==
    /\ pc[t] = "bk_write"
    /\ todo[t] # {}
    /\ \E n \in todo[t] :
          IF store[n] = NoBlob
          THEN /\ backups' = [backups EXCEPT ![file[t]] = Zip(zf[t])]
               /\ foreign' = Fgn(t, TRUE, TRUE)
               /\ Finish(t, "error")
          ELSE /\ zf' = [zf EXCEPT ![t] = Append(zf[t], Member(n, store[n], TRUE))]
               /\ todo' = [todo EXCEPT ![t] = todo[t] \ {n}]
               /\ UNCHANGED <<backups, foreign, pc, ret, cl, inp, old, start>>
    /\ UNCHANGED <<clients, clients_lock, accounts, store, op, arg, file,
                   got, probe, nextId, ops, req, name>>

\* The with block ends: the archive is closed, and its name and size are
\* returned (app.py:214, 218).
BkClose(t) ==
    /\ pc[t] = "bk_write"
    /\ todo[t] = {}
    /\ backups' = [backups EXCEPT ![file[t]] = Zip(zf[t])]
    /\ foreign' = Fgn(t, TRUE, TRUE)
    /\ Finish(t, "ok")
    /\ UNCHANGED <<clients, clients_lock, accounts, store, op, arg, file,
                   got, probe, nextId, ops, req, name>>

\* --------------------------------------------------------- restore_backup
\* restore_backup is a coroutine without an await: the event loop runs one
\* restore at a time, concurrently with the worker threads.
InRestore(u) ==
    pc[u] \in {"rs_open", "rs_extract", "rs_lock", "rs_clear", "rs_list"}

\* POST /restore: the upload is copied to BACKUP_DIR under the name the
\* client gave (app.py:222-224).
RsUpload(t, f, a) ==
    /\ Begin(t, "restore_backup", "rs_open", "running")
    /\ \A u \in Threads : ~InRestore(u)
    /\ arg' = [arg EXCEPT ![t] = NoName]
    /\ file' = [file EXCEPT ![t] = f]
    /\ inp' = [inp EXCEPT ![t] = a]
    /\ start' = [start EXCEPT ![t] = store]
    /\ backups' = [backups EXCEPT ![f] = a]
    /\ foreign' = Fgn(t, TRUE, FALSE)
    /\ UNCHANGED <<clients, clients_lock, accounts, store, nextId, req, name>>

\* zipfile.ZipFile(backup_path, 'r') reads the central directory and raises
\* BadZipFile when there is none (app.py:226).
RsOpen(t) ==
    /\ pc[t] = "rs_open"
    /\ IF backups[file[t]].ok
       THEN /\ zf' = [zf EXCEPT ![t] = backups[file[t]].members]
            /\ pc' = [pc EXCEPT ![t] = "rs_extract"]
            /\ UNCHANGED <<ret, cl, todo, inp, old, start, foreign>>
       ELSE /\ Finish(t, "error")
            /\ foreign' = Fgn(t, FALSE, TRUE)
    /\ UNCHANGED <<clients, clients_lock, accounts, store, backups, op, arg,
                   file, got, probe, nextId, ops, req, name>>

\* zf.extractall(SESSIONS_DIR) extracts member after member; a member with
\* a damaged header raises BadZipFile, which ends the request (app.py:227).
RsExtract(t) ==
    /\ pc[t] = "rs_extract"
    /\ IF zf[t] = <<>>
       THEN /\ pc' = [pc EXCEPT ![t] = "rs_lock"]
            /\ UNCHANGED <<store, ret, cl, zf, todo, inp, old, start, foreign>>
       ELSE IF Head(zf[t]).good
            THEN /\ store' = ExtractMember(store, Head(zf[t]))
                 /\ zf' = [zf EXCEPT ![t] = Tail(zf[t])]
                 /\ foreign' = Fgn(t, store' # store, FALSE)
                 /\ UNCHANGED <<pc, ret, cl, todo, inp, old, start>>
            ELSE /\ Finish(t, "error")
                 /\ foreign' = Fgn(t, FALSE, TRUE)
                 /\ UNCHANGED store
    /\ UNCHANGED <<clients, clients_lock, accounts, backups, op, arg, file,
                   got, probe, nextId, ops, req, name>>

\* with clients_lock: (app.py:229)
RsLock(t) ==
    /\ pc[t] = "rs_lock"
    /\ clients_lock = 0
    /\ clients_lock' = t
    /\ pc' = [pc EXCEPT ![t] = "rs_clear"]
    /\ UNCHANGED <<clients, accounts, store, backups, op, arg, file, ret,
                   got, probe, cl, zf, todo, inp, old, start, foreign,
                   nextId, ops, req, name>>

\* RsClear that leaves the pool as it is.
RsClear_KeepsPool(t) ==
    /\ pc[t] = "rs_clear"
    /\ clients_lock' = 0
    /\ cl' = [cl EXCEPT ![t] = [NoHandle EXCEPT !.id = nextId]]
    /\ pc' = [pc EXCEPT ![t] = "rs_list"]
    /\ UNCHANGED <<clients, accounts, store, backups, op, arg, file, ret,
                   got, probe, zf, todo, inp, old, start, foreign, nextId,
                   ops, req, name>>

\* clients.clear() and release of the lock (app.py:230).  cl keeps the
\* number of Clients constructed before the pool was cleared (history).
RsClear(t) ==
    /\ pc[t] = "rs_clear"
    /\ clients' = [n \in Names |-> NoHandle]
    /\ clients_lock' = 0
    /\ cl' = [cl EXCEPT ![t] = [NoHandle EXCEPT !.id = nextId]]
    /\ pc' = [pc EXCEPT ![t] = "rs_list"]
    /\ UNCHANGED <<accounts, store, backups, op, arg, file, ret, got, probe,
                   zf, todo, inp, old, start, foreign, nextId, ops, req,
                   name>>

\* The restored names are listed and returned (app.py:232-233).
RsList(t) ==
    /\ pc[t] = "rs_list"
    /\ Finish(t, "ok")
    /\ foreign' = Fgn(t, FALSE, TRUE)
    /\ UNCHANGED <<clients, clients_lock, accounts, store, backups, op, arg,
                   file, got, probe, nextId, ops, req, name>>

Next ==
    \E t \in Threads :
        \/ \E n \in Names : CallGetClient(t, n)
        \/ AcqLock(t)
        \/ AcqProbe(t)
        \/ AcqExists(t)
        \/ AcqBuild(t)
        \/ AcqLoad(t)
        \/ \E n \in Names : CallDelete(t, n)
        \/ DelExists(t)
        \/ DelRemove(t)
        \/ DelLock(t)
        \/ DelPop(t)
        \/ \E n \in Names, p \in Proxies \cup {NoProxy} : AddAccount(t, n, p)
        \/ CrLogin(t)
        \/ CrDump(t)
        \/ CrMeta(t)
        \/ \E f \in ArchNames : BkOpen(t, f)
        \/ BkList(t)
        \/ BkWrite(t)
        \/ BkClose(t)
        \/ \E f \in ArchNames, a \in Uploads : RsUpload(t, f, a)
        \/ RsOpen(t)
        \/ RsExtract(t)
        \/ RsLock(t)
        \/ RsClear(t)
        \/ RsList(t)

Spec == Init /\ [][Next]_vars

\* A step of the handler or background task that thread t is running.
Step(t) ==
    \/ AcqLock(t) \/ AcqProbe(t) \/ AcqExists(t) \/ AcqBuild(t) \/ AcqLoad(t)
    \/ DelExists(t) \/ DelRemove(t) \/ DelLock(t) \/ DelPop(t)
    \/ CrLogin(t) \/ CrDump(t) \/ CrMeta(t)
    \/ BkList(t) \/ BkWrite(t) \/ BkClose(t)
    \/ RsOpen(t) \/ RsExtract(t) \/ RsLock(t) \/ RsClear(t) \/ RsList(t)

\* Every thread that can run does run, and the calls it makes (the probe,
\* the login, the file operations) return: a handler that can take a step
\* takes it.  No request has to be issued.
LiveSpec == Spec /\ \A t \in Threads : WF_vars(Step(t))

\* ------------------------------------------------------- name derivation
\* The first statement of add_account on its own: the server is idle and a
\* request body req has arrived.
NameInit ==
    /\ clients = [n \in Names |-> NoHandle]
    /\ clients_lock = 0
    /\ accounts = [n \in Names |-> NoMeta]
    /\ store = EmptyStore
    /\ backups = [f \in ArchNames |-> NoArchive]
    /\ pc = [t \in Threads |-> "idle"]
    /\ op = [t \in Threads |-> "none"]
    /\ arg = [t \in Threads |-> NoName]
    /\ file = [t \in Threads |-> NoName]
    /\ ret = [t \in Threads |-> "none"]
    /\ got = [t \in Threads |-> NoHandle]
    /\ probe = [t \in Threads |-> "none"]
    /\ cl = [t \in Threads |-> NoHandle]
    /\ zf = [t \in Threads |-> <<>>]
    /\ todo = [t \in Threads |-> {}]
    /\ inp = [t \in Threads |-> NoArchive]
    /\ old = [t \in Threads |-> NoHandle]
    /\ start = [t \in Threads |-> EmptyStore]
    /\ foreign = [t \in Threads |-> FALSE]
    /\ nextId = 0
    /\ ops = 0
    /\ req \in Requests
    /\ name = NoDerived

\* name = req.name or ... (app.py:73).
Derive ==
    /\ name = NoDerived
    /\ name' = DeriveName(req)
    /\ UNCHANGED <<clients, clients_lock, accounts, store, backups, pc, op,
                   arg, file, ret, got, probe, cl, zf, todo, inp, old, start,
                   foreign, nextId, ops, req>>

NameNext == Derive

NameSpec == NameInit /\ [][NameNext]_vars
\* ----------------------------------------------------------------- claims
\* Thread t takes a step that leaves label l.
Leaves(t, l) == pc[t] = l /\ pc'[t] # l

GetClientPcs == {"acq_lock", "acq_probe", "acq_exists", "acq_build", "acq_load"}

\* C1: when get_client(n) finds a Client cached for n and its liveness probe
\* succeeds, the call returns that very Client: no Client is constructed
\* and the pool is left as it was.
C1_CachedClientReturned ==
    [][\A t \in Threads :
          (Leaves(t, "acq_probe") /\ probe'[t] = "ok")
             => /\ clients[arg[t]] # NoHandle
                /\ ret'[t] = "ok"
                /\ got'[t] = clients[arg[t]]
                /\ clients' = clients
                /\ nextId' = nextId]_vars

\* Two get_client calls have returned the same Client, the later one after
\* a successful probe.
C1_Witness ==
    \E t \in Threads, u \in Threads :
        /\ t # u
        /\ pc[t] = "idle" /\ op[t] = "get_client" /\ ret[t] = "ok"
        /\ pc[u] = "idle" /\ op[u] = "get_client" /\ ret[u] = "ok"
        /\ probe[u] = "ok"
        /\ got[t] # NoHandle
        /\ got[u] = got[t]
        /\ clients[arg[u]] = got[u]

\* C2: when the probe of the cached Client fails, get_client evicts it, and
\* if the session file of n exists when the call comes to an end, the call
\* ends well: it returns a newly constructed Client loaded from the stored
\* blob, and that Client is the one cached for n.
C2_RebuildAfterFailedProbe ==
    [][\A t \in Threads :
          /\ (Leaves(t, "acq_probe") /\ probe'[t] = "fail")
                => /\ clients[arg[t]] # NoHandle
                   /\ clients' = [clients EXCEPT ![arg[t]] = NoHandle]
                   /\ pc'[t] = "acq_exists"
          /\ (/\ pc[t] \in GetClientPcs
              /\ pc'[t] = "idle"
              /\ probe[t] = "fail"
              /\ store[arg[t]] # NoBlob)
                => /\ ret'[t] = "ok"
                   /\ got'[t].blob = store[arg[t]]
                   /\ got'[t].id > old[t].id
                   /\ got'[t].id = nextId
                   /\ clients' = [clients EXCEPT ![arg[t]] = got'[t]]]_vars

\* A get_client whose probe failed has returned a rebuilt Client.
C2_Witness ==
    \E t \in Threads :
        /\ pc[t] = "idle" /\ op[t] = "get_client"
        /\ probe[t] = "fail"
        /\ ret[t] = "ok"
        /\ got[t].id > 1
        /\ got[t].blob = store[arg[t]]
        /\ clients[arg[t]] = got[t]

\* C3: get_client(n) that finds no Client cached for n, or has just evicted
\* it, and finds no session file of n ends with NotFound; the pool then has
\* no Client for n, and no step of the call has changed the entry of
\* another account.
C3_MissingSessionNotFound ==
    [][\A t \in Threads :
          /\ (Leaves(t, "acq_exists") /\ store[arg[t]] = NoBlob)
                => /\ ret'[t] = "NotFound"
                   /\ pc'[t] = "idle"
                   /\ got'[t] = NoHandle
                   /\ clients'[arg[t]] = NoHandle
                   /\ clients' = clients
          /\ (pc[t] \in {"acq_lock", "acq_probe", "acq_exists"} /\ pc'[t] # pc[t])
                => \A m \in Names \ {arg[t]} : clients'[m] = clients[m]]_vars

\* A get_client has ended with NotFound after evicting the Client of its
\* account, whose session file is gone.
C3_Witness ==
    \E t \in Threads :
        /\ pc[t] = "idle" /\ op[t] = "get_client"
        /\ ret[t] = "NotFound"
        /\ probe[t] = "fail"
        /\ store[arg[t]] = NoBlob
        /\ clients[arg[t]] = NoHandle

\* C4: delete_account(n) for a name without a session file ends with
\* NotFound and leaves the session store, the registry, the pool (and the
\* archive area) as they were.
C4_DeleteUnknownNotFound ==
    [][\A t \in Threads :
          (Leaves(t, "del_exists") /\ store[arg[t]] = NoBlob)
             => /\ ret'[t] = "NotFound"
                /\ pc'[t] = "idle"
                /\ store' = store
                /\ accounts' = accounts
                /\ clients' = clients
                /\ backups' = backups]_vars

\* A delete of a name without a session file has ended with NotFound while
\* the pool and the store hold another account.
C4_Witness ==
    \E t \in Threads :
        /\ pc[t] = "idle" /\ op[t] = "delete_account"
        /\ ret[t] = "NotFound"
        /\ store[arg[t]] = NoBlob
        /\ \E m \in Names \ {arg[t]} : clients[m] # NoHandle /\ store[m] # NoBlob

\* C5: when delete_account(n) returns success and no other thread has
\* written the store or the registry meanwhile (get_client calls may run
\* concurrently), n has no session file, no cached Client and no metadata;
\* and a delete_account(n) that finds no session file ends with NotFound.
C5_DeleteRemovesAll ==
    [][\A t \in Threads :
          /\ (Leaves(t, "del_pop") /\ ~foreign[t])
                => /\ ret'[t] = "ok"
                   /\ pc'[t] = "idle"
                   /\ store'[arg[t]] = NoBlob
                   /\ clients'[arg[t]] = NoHandle
                   /\ accounts'[arg[t]] = NoMeta
          /\ (/\ Leaves(t, "del_exists")
              /\ \E u \in Threads \ {t} :
                    /\ pc[u] = "idle" /\ op[u] = "delete_account"
                    /\ ret[u] = "ok" /\ arg[u] = arg[t]
              /\ store[arg[t]] = NoBlob)
                => ret'[t] = "NotFound"]_vars

\* A delete has returned success while a get_client of the same account
\* ran concurrently and failed to load the removed session file.
C5_Witness ==
    \E t \in Threads, u \in Threads :
        /\ pc[t] = "idle" /\ op[t] = "delete_account" /\ ret[t] = "ok"
        /\ op[u] = "get_client" /\ arg[u] = arg[t]
        /\ ret[u] = "error"
        /\ store[arg[t]] = NoBlob
        /\ clients[arg[t]] = NoHandle
        /\ accounts[arg[t]] = NoMeta

\* C6: once the session file of n has been removed, no get_client(n)
\* returns a Client for n: every get_client that returns a Client does so
\* while the session file of its account exists.
C6_NoClientWithoutSession ==
    [][\A t \in Threads :
          (pc[t] \in GetClientPcs /\ pc'[t] = "idle" /\ ret'[t] = "ok")
             => store[arg[t]] # NoBlob]_vars

\* C7: when restore_backup has extracted a valid archive and no other
\* thread has written the store or the archive meanwhile, every name of the
\* archive has the blob of the archive, every other name has the blob it
\* had when the restore started, and no name has lost its session file.
C7_RestoreAdditive ==
    \A t \in Threads :
        (pc[t] = "rs_lock" /\ ~foreign[t])
           => /\ inp[t].ok /\ AllGood(inp[t].members)
              /\ \A n \in Names :
                    store[n] = IF n \in MemberNames(inp[t].members)
                               THEN BlobOf(inp[t].members, n)
                               ELSE start[t][n]
              /\ ListDir(start[t]) \subseteq ListDir(store)
              /\ store = ExtractAll(inp[t].members, start[t])

\* A restore has extracted an archive that overwrote the session file of
\* one account and left the session file of an account it does not name.
C7_Witness ==
    \E t \in Threads :
        /\ pc[t] = "rs_lock" /\ ~foreign[t]
        /\ \E n \in MemberNames(inp[t].members) :
              /\ start[t][n] # NoBlob
              /\ start[t][n] # store[n]
        /\ \E m \in Names \ MemberNames(inp[t].members) :
              /\ start[t][m] # NoBlob
              /\ store[m] = start[t][m]

\* C8: the archive that create_backup closes, when no other thread has
\* written the store or the archive meanwhile, is a valid archive whose
\* extraction into an empty session store gives exactly the session files
\* the store had when the backup started (also when it had none).
C8_BackupRestoreRoundTrip ==
    [][\A t \in Threads :
          (Leaves(t, "bk_write") /\ pc'[t] = "idle" /\ ret'[t] = "ok" /\ ~foreign[t])
             => /\ backups'[file[t]].ok
                /\ AllGood(backups'[file[t]].members)
                /\ store = start[t]
                /\ ExtractAll(backups'[file[t]].members, EmptyStore) = start[t]]_vars

\* A backup of a store with two session files has returned, and extracting
\* its archive into an empty store gives the store back.
C8_Witness ==
    \E t \in Threads :
        /\ pc[t] = "idle" /\ op[t] = "create_backup" /\ ret[t] = "ok"
        /\ backups[file[t]].ok
        /\ Len(backups[file[t]].members) = 2
        /\ ListDir(store) = Names
        /\ ExtractAll(backups[file[t]].members, EmptyStore) = store

\* C9: a restore_backup that fails, no other thread having written the
\* store or the archive meanwhile, fails at the opening of the archive,
\* before any extraction step, and leaves the session store as it was when
\* the restore started.
C9_FailedRestoreLeavesStore ==
    [][\A t \in Threads :
          (/\ pc[t] \in {"rs_open", "rs_extract"}
           /\ pc'[t] = "idle"
           /\ ret'[t] = "error"
           /\ ~foreign[t])
             => /\ pc[t] = "rs_open"
                /\ store' = start[t]]_vars

\* C10: when restore_backup is about to return, every Client in the pool
\* was constructed after the pool was cleared, hence after the extraction;
\* and if no other thread has written the store meanwhile, every Client in
\* the pool was loaded from the blob the store holds now.
C10_PoolFreshAfterRestore ==
    \A t \in Threads :
        pc[t] = "rs_list"
           => \A n \in Names :
                 clients[n] # NoHandle
                    => /\ clients[n].id > cl[t].id
                       /\ ~foreign[t] => clients[n].blob = store[n]

\* A restore is about to return; before it cleared the pool a get_client
\* returned a Client loaded from a blob the restore has overwritten, and
\* that Client is no longer in the pool.
C10_Witness ==
    \E t \in Threads, u \in Threads :
        /\ pc[t] = "rs_list"
        /\ op[u] = "get_client" /\ ret[u] = "ok"
        /\ got[u].id <= cl[t].id
        /\ got[u].blob # store[arg[u]]
        /\ got[u].blob = start[t][arg[u]]
        /\ clients[arg[u]] # got[u]

\* C11: add_account acknowledges the request with the account name before
\* the login runs, without having written anything; and a login that fails
\* ends the background task with the session store and the registry as
\* they were and with the acknowledgment still the result of the request.
C11_AckThenSilentLoginFailure ==
    [][\A t \in Threads :
          /\ (pc[t] = "idle" /\ pc'[t] # "idle" /\ op'[t] = "add_account")
                => /\ pc'[t] = "cr_login"
                   /\ ret'[t] = "ack"
                   /\ arg'[t] \in Names
                   /\ store' = store
                   /\ accounts' = accounts
                   /\ clients' = clients
          /\ (Leaves(t, "cr_login") /\ pc'[t] = "idle")
                => /\ ret[t] = "ack"
                   /\ ret'[t] = "ack"
                   /\ store' = store
                   /\ accounts' = accounts
                   /\ clients' = clients]_vars

\* The only request so far was an add_account whose login failed: it was
\* acknowledged, and its account has neither session file nor metadata.
C11_Witness ==
    \E t \in Threads :
        /\ ops = 1
        /\ pc[t] = "idle" /\ op[t] = "add_account" /\ ret[t] = "ack"
        /\ store[arg[t]] = NoBlob
        /\ accounts[arg[t]] = NoMeta

\* C12: the background task of an add_account whose login succeeded, no
\* other thread having written the store or the registry meanwhile, ends
\* with the session file and the metadata of its account written; and a
\* get_client(n) that runs after such an add_account(n) has ended, while the
\* store still holds the blob and the registry the proxy it wrote and no
\* other thread writes them, returns a Client loaded from that blob and set
\* up with that proxy.
C12_AcquireAfterCreate ==
    [][\A t \in Threads :
          /\ (Leaves(t, "cr_meta") /\ ~foreign[t])
                => /\ pc'[t] = "idle"
                   /\ store'[arg[t]] = cl[t].blob
                   /\ store'[arg[t]] \in LoginBlobs
                   /\ accounts'[arg[t]] = file[t]
          /\ (/\ pc[t] \in GetClientPcs
              /\ pc'[t] = "idle"
              /\ ~foreign[t]
              /\ store[arg[t]] \in LoginBlobs
              /\ \E u \in Threads \ {t} :
                    /\ pc[u] = "idle" /\ op[u] = "add_account"
                    /\ arg[u] = arg[t]
                    /\ accounts[arg[t]] = file[u])
                => /\ ret'[t] = "ok"
                   /\ got'[t].blob = store[arg[t]]
                   /\ got'[t].proxy = accounts[arg[t]]]_vars

\* C13: a create_backup that comes to a listed session file it cannot read
\* (a concurrent delete has removed it) fails, and when a create_backup
\* fails no archive of it remains in BACKUP_DIR.
C13_NoPartialArchive ==
    [][\A t \in Threads :
          /\ (/\ Leaves(t, "bk_write")
              /\ \E n \in todo[t] : store[n] = NoBlob)
                => ret'[t] = "error"
          /\ (pc[t] \in {"bk_list", "bk_write"} /\ pc'[t] = "idle"
              /\ ret'[t] = "error")
                => ~backups'[file[t]].exists]_vars

\* The labels of get_client inside its with clients_lock block.
AcqCritical == {"acq_probe", "acq_exists", "acq_build", "acq_load"}

\* C14: while a get_client is inside its critical section, no other thread
\* is clearing the pool in restore_backup, and no other thread is writing
\* an archive in create_backup (between the opening and the closing of the
\* archive file).
C14_NoOverlapWithAcquire ==
    \A t \in Threads : \A u \in Threads \ {t} :
        pc[u] \in AcqCritical
           => /\ pc[t] # "rs_clear"
              /\ pc[t] \notin {"bk_list", "bk_write"}

\* Thread t is at a statement that writes or removes the session file of n:
\* dump_settings of create_session, the extraction of a member named n, or
\* os.remove of delete_account.
Mutating(t, n) ==
    \/ pc[t] = "cr_dump" /\ arg[t] = n
    \/ pc[t] = "del_remove" /\ arg[t] = n
    \/ /\ pc[t] = "rs_extract"
       /\ zf[t] # <<>>
       /\ Head(zf[t]).good
       /\ Head(zf[t]).name = n

\* C15: no two threads are at the same time at a statement that writes or
\* removes the session file of the same account.
C15_SingleStoreWriter ==
    \A n \in Names : \A t \in Threads :
        Mutating(t, n) => \A u \in Threads \ {t} : ~Mutating(u, n)

\* C16: lookup, eviction, construction and insertion of a get_client call
\* are one critical section.  A thread inside it holds clients_lock, so at
\* most one is inside; a Client is constructed only when the pool has none
\* for the name (never after a successful probe); it is inserted only into
\* an empty slot, by the thread that constructed it, after the session blob
\* was loaded into it, and it is the one returned; and the pool never holds
\* a Client without a loaded blob nor the Client still under construction.
C16_AcquireCriticalSection ==
    /\ [](\A t \in Threads :
            /\ pc[t] \in AcqCritical => clients_lock = t
            /\ pc[t] = "acq_load"
                  => \A n \in Names : clients[n].id # cl[t].id)
    /\ [](\A n \in Names :
            clients[n] # NoHandle
               => clients[n].blob # NoBlob /\ clients[n].id >= 1)
    /\ [][/\ \A t \in Threads :
                Leaves(t, "acq_build")
                   => /\ clients[arg[t]] = NoHandle
                      /\ probe[t] # "ok"
                      /\ nextId' = nextId + 1
                      /\ cl'[t].id = nextId'
                      /\ clients' = clients
          /\ \A n \in Names :
                (clients'[n] # clients[n] /\ clients'[n] # NoHandle)
                   => \E t \in Threads :
                         /\ pc[t] = "acq_load" /\ arg[t] = n
                         /\ clients_lock = t
                         /\ clients[n] = NoHandle
                         /\ clients'[n].id = cl[t].id
                         /\ clients'[n].blob = store[n]
                         /\ store[n] # NoBlob
                         /\ got'[t] = clients'[n]
                         /\ ret'[t] = "ok"]_vars

\* Two get_client calls of the same account run concurrently on a cache
\* miss: one has constructed a Client and is about to load and insert it
\* while the other waits for the lock.
C16_Witness ==
    \E t \in Threads, u \in Threads :
        /\ t # u
        /\ pc[t] = "acq_load" /\ pc[u] = "acq_lock"
        /\ arg[t] = arg[u]
        /\ probe[t] = "none"
        /\ clients[arg[t]] = NoHandle
        /\ store[arg[t]] # NoBlob
        /\ clients_lock = t

\* The position of the first '@' of s, Len(s) + 1 when it has none.
FirstAt(s) ==
    IF \E i \in 1..Len(s) : s[i] = "@"
    THEN CHOOSE i \in 1..Len(s) :
            s[i] = "@" /\ \A j \in 1..(i - 1) : s[j] # "@"
    ELSE Len(s) + 1

\* C17: without an explicit name the account name is the part of the email
\* before its first '@' (all of it when it has none) with every '+' and
\* every '.' replaced by '_' and every other character unchanged, so that
\* alice@x.com gives alice; an explicit non-empty name is used unchanged.
C17_NameDerivation ==
    name # NoDerived
       => /\ req.name = None
               => /\ Len(name) = FirstAt(req.email) - 1
                  /\ \A i \in 1..Len(name) :
                        name[i] = IF req.email[i] \in {"+", "."}
                                  THEN "_" ELSE req.email[i]
          /\ (req.name = None /\ req.email = AliceEmail)
               => name = <<"a", "l", "i", "c", "e">>
          /\ (req.name # None /\ req.name # <<>>) => name = req.name

\* The name of a request without a name whose email has a '+' and a '.'
\* before the '@' has been derived.
C17_Witness ==
    /\ req.name = None
    /\ req.email = <<"+", ".", "@">>
    /\ name = <<"_", "_">>

\* The labels at which a thread waits for clients_lock, and the labels
\* inside a with clients_lock block.
LockRequests == {"acq_lock", "del_lock", "rs_lock"}
LockHeld == AcqCritical \cup {"del_pop", "rs_clear"}

\* C18: clients_lock is held exactly by a thread inside a with clients_lock
\* block, so every exit of get_client, delete_account and restore_backup
\* has released it and no thread waits for a lock it holds; whenever a
\* handler is running, some running handler is not waiting for a held
\* lock; and every handler that has started comes to its end.
C18_LockReleasedNoDeadlock ==
    /\ [](\A t \in Threads :
            /\ clients_lock = t <=> pc[t] \in LockHeld
            /\ pc[t] \in LockRequests => clients_lock # t)
    /\ []((\E t \in Threads : pc[t] # "idle")
            => \E t \in Threads :
                  /\ pc[t] # "idle"
                  /\ pc[t] \in LockRequests => clients_lock = 0)
    /\ \A t \in Threads : (pc[t] # "idle") ~> (pc[t] = "idle")

\* A get_client has ended with the exception of load_settings, and after
\* it a delete_account has taken the lock.
C18_Witness ==
    \E t \in Threads, u \in Threads :
        /\ pc[t] = "idle" /\ op[t] = "get_client" /\ ret[t] = "error"
        /\ pc[u] = "del_pop"
        /\ clients_lock = u

DeletePcs == {"del_exists", "del_remove", "del_lock", "del_pop"}

\* C19: every delete_account call ends with success or with NotFound, and
\* of two delete_account(n) calls running at the same time at most one
\* removes the session file and ends with success.
C19_ConcurrentDeletesOneSuccess ==
    [][\A t \in Threads :
          /\ (pc[t] \in DeletePcs /\ pc'[t] = "idle")
                => ret'[t] \in {"ok", "NotFound"}
          /\ Leaves(t, "del_pop")
                => \A u \in Threads \ {t} :
                      ~(pc[u] \in {"del_lock", "del_pop"} /\ arg[u] = arg[t])]_vars

\* C20: whenever no handler and no background task is running, every Client
\* in the pool was loaded from the blob that the session file of its
\* account holds now.
C20_IdlePoolMatchesStore ==
    (\A t \in Threads : pc[t] = "idle")
       => \A n \in Names :
             clients[n] # NoHandle => clients[n].blob = store[n]

====
